---- MODULE Spec2Model ----
(***************************************************************************)
(* TaskMaster Pro (src/task_manager.py): the in-memory store of task       *)
(* lists, the controller handlers of ProfessionalTaskManagerApp and the    *)
(* JSON persistence (save_data / load_data).                               *)
(*                                                                         *)
(* Strings the code strips, lower-cases or measures (list names, task      *)
(* texts) are sequences of one-character strings.  Timestamps are the      *)
(* strings strftime renders from the clock; the clock of the model counts  *)
(* ticks and a tick is the resolution of both formats.  List and item      *)
(* indexes are 0-based as in the code; sequences are 1-based.              *)
(***************************************************************************)
EXTENDS Integers, Sequences, FiniteSets, TLC

\* ------------------------------------------------------------------ bounds
MaxSteps == 3   \* user actions, clock ticks and disk faults in one behaviour
MaxLists == 2   \* lists the store may hold before create_new_list is disabled
MaxItems == 5   \* items a list may hold before add_new_item is disabled

\* ------------------------------------------------------------------ strings
\* Python's None, as a value comparable with every string of the model
None == <<"None">>

Whitespace == {" ", "\t", "\n", "\r"}

UpperCase == <<"A","B","C","D","E","F","G","H","I","J","K","L","M",
               "N","O","P","Q","R","S","T","U","V","W","X","Y","Z">>
LowerCase == <<"a","b","c","d","e","f","g","h","i","j","k","l","m",
               "n","o","p","q","r","s","t","u","v","w","x","y","z">>

\* str.lower() on one character
LowerChar(c) ==
    IF \E i \in 1..Len(UpperCase) : UpperCase[i] = c
    THEN LowerCase[CHOOSE i \in 1..Len(UpperCase) : UpperCase[i] = c]
    ELSE c

\* str.upper() on one character
UpperChar(c) ==
    IF \E i \in 1..Len(LowerCase) : LowerCase[i] = c
    THEN UpperCase[CHOOSE i \in 1..Len(LowerCase) : LowerCase[i] = c]
    ELSE c

\* str.upper()
Upper(s) == [i \in 1..Len(s) |-> UpperChar(s[i])]

\* str.lower()
Lower(s) == [i \in 1..Len(s) |-> LowerChar(s[i])]

RECURSIVE LStrip(_)
LStrip(s) ==
    IF s # <<>> /\ Head(s) \in Whitespace THEN LStrip(Tail(s)) ELSE s

RECURSIVE RStrip(_)
RStrip(s) ==
    IF s # <<>> /\ s[Len(s)] \in Whitespace
    THEN RStrip(SubSeq(s, 1, Len(s) - 1))
    ELSE s

\* str.strip()
Strip(s) == RStrip(LStrip(s))

\* datetime.now().strftime("%Y-%m-%d %H:%M") and strftime("%Y-%m-%d")
Strftime(t) == <<ToString(t)>>

\* ------------------------------------------------------------------ data model
DefaultColor == <<"#","4","A","9","0","E","2">>

\* TaskItem.__init__: created_at or now; completed_at = None
TaskItem(text, done, created_at, t) ==
    [text         |-> text,
     done         |-> done,
     created_at   |-> IF created_at = None THEN Strftime(t) ELSE created_at,
     completed_at |-> None]

\* TaskList.__init__: color or "#4A90E2"; items = []
TaskList(name, color, t) ==
    [name       |-> name,
     color      |-> IF color = None \/ color = <<>> THEN DefaultColor ELSE color,
     items      |-> <<>>,
     created_at |-> Strftime(t)]

RemoveFirst(s, i) == Tail(s)

\* list.pop(i - 1)
RemoveAt(s, i) == SubSeq(s, 1, i - 1) \o SubSeq(s, i + 1, Len(s))

TaskList_add_item_front(tl, text, t) ==
    [tl EXCEPT !.items = <<TaskItem(text, FALSE, None, t)>> \o @]

TaskList_add_item(tl, text, t) ==
    [tl EXCEPT !.items = Append(@, TaskItem(text, FALSE, None, t))]

TaskList_remove_item_last(tl, index) ==
    IF 0 <= index /\ index < Len(tl.items)
    THEN [tl EXCEPT !.items = SubSeq(@, 1, Len(@) - 1)]
    ELSE tl

TaskList_remove_item(tl, index) ==
    IF 0 <= index /\ index < Len(tl.items)
    THEN [tl EXCEPT !.items = RemoveAt(@, index + 1)]
    ELSE tl

TaskList_toggle_item_keeps_stamp(tl, index, t) ==
    IF 0 <= index /\ index < Len(tl.items)
    THEN LET done == ~tl.items[index + 1].done
         IN  [tl EXCEPT !.items[index + 1].done = done,
                        !.items[index + 1].completed_at =
                            IF done THEN Strftime(t) ELSE @]
    ELSE tl

TaskList_mark_item(tl, index, t) ==
    IF 0 <= index /\ index < Len(tl.items)
    THEN [tl EXCEPT !.items[index + 1].done = TRUE,
                    !.items[index + 1].completed_at = Strftime(t)]
    ELSE tl

TaskList_toggle_item_wraps(tl, index, t) ==
    IF 0 - Len(tl.items) <= index /\ index < Len(tl.items)
    THEN LET i == IF index < 0 THEN Len(tl.items) + index + 1 ELSE index + 1
             done == ~tl.items[i].done
         IN  [tl EXCEPT !.items[i].done = done,
                        !.items[i].completed_at =
                            IF done THEN Strftime(t) ELSE None]
    ELSE tl

TaskList_toggle_item(tl, index, t) ==
    IF 0 <= index /\ index < Len(tl.items)
    THEN LET done == ~tl.items[index + 1].done
         IN  [tl EXCEPT !.items[index + 1].done = done,
                        !.items[index + 1].completed_at =
                            IF done THEN Strftime(t) ELSE None]
    ELSE tl

TaskList_edit_item_fresh(tl, index, new_text) ==
    IF 0 <= index /\ index < Len(tl.items)
    THEN [tl EXCEPT !.items[index + 1] =
              [text |-> new_text, done |-> FALSE, created_at |-> @.created_at,
               completed_at |-> None]]
    ELSE tl

TaskList_edit_item(tl, index, new_text) ==
    IF 0 <= index /\ index < Len(tl.items)
    THEN [tl EXCEPT !.items[index + 1].text = new_text]
    ELSE tl

CompletedOpen(items) == Cardinality({i \in 1..Len(items) : ~items[i].done})

\* completed = sum(1 for item in items if item.done)
Completed(items) == Cardinality({i \in 1..Len(items) : items[i].done})

\* get_stats: (total, completed, progress); progress = completed / total * 100 is
\* kept as the fraction <<numerator, denominator>>, 0 as <<0, 1>>
TaskList_get_stats(tl) ==
    LET total == Len(tl.items)
        completed == Completed(tl.items)
    IN  [total     |-> total,
         completed |-> completed,
         progress  |-> IF total > 0 THEN <<completed * 100, total>> ELSE <<0, 1>>]

\* ------------------------------------------------------------------ persistence
\* The data file: absent, or present with text that json.load parses to `doc`
\* (a list of objects) or fails to parse.
JNull == <<"null">>

NoFile == [exists |-> FALSE, parses |-> FALSE, doc |-> <<>>]
JsonFile(doc) == [exists |-> TRUE, parses |-> TRUE, doc |-> doc]
TruncatedFile == [exists |-> TRUE, parses |-> FALSE, doc |-> <<>>]

\* json.dump of a Python value: None is written as null
DumpValue(v) == IF v = None THEN JNull ELSE v

DumpItem(item) ==
    [text         |-> item.text,
     done         |-> item.done,
     created_at   |-> item.created_at,
     completed_at |-> DumpValue(item.completed_at)]

DumpList(tl) ==
    [name       |-> tl.name,
     color      |-> tl.color,
     created_at |-> tl.created_at,
     items      |-> [i \in 1..Len(tl.items) |-> DumpItem(tl.items[i])]]

\* the `data` list save_data builds and json.dump writes
Dump(lists) == [i \in 1..Len(lists) |-> DumpList(lists[i])]

\* how a write of a file ends: open may raise (file untouched), a write may
\* raise after open has truncated the file
SaveOutcomes == {"ok", "open_failed", "write_failed"}

\* where the process can be killed (power loss, kill -9) inside a write of a
\* file: before open, after open has truncated the file and before json.dump
\* has written all of it, or after the with block has closed the file
Crashes == {"killed_before_open", "killed_in_write", "killed_after_close"}

\* save_data: open(..., "w") truncates the file, json.dump writes the document
save_data(lists, f, outcome) ==
    CASE outcome = "ok"                 -> JsonFile(Dump(lists))
      [] outcome = "open_failed"        -> f
      [] outcome = "write_failed"       -> TruncatedFile
      [] outcome = "killed_before_open" -> f
      [] outcome = "killed_in_write"    -> TruncatedFile
      [] outcome = "killed_after_close" -> JsonFile(Dump(lists))

\* json.load of a JSON value: null is read as None
ParseValue(v) == IF v = JNull THEN None ELSE v

\* dict.get(key, default) on a parsed object: a string or null, and a boolean
GetStr(obj, key, default) == IF key \in DOMAIN obj THEN ParseValue(obj[key]) ELSE default
GetBool(obj, key, default) == IF key \in DOMAIN obj THEN obj[key] ELSE default

LoadItem_fresh(item_data, t) ==
    TaskItem(item_data["text"], GetBool(item_data, "done", FALSE), None, t)

LoadItem(item_data, t) ==
    [TaskItem(item_data["text"], GetBool(item_data, "done", FALSE), None, t)
        EXCEPT !.created_at   = GetStr(item_data, "created_at", Strftime(t)),
               !.completed_at = GetStr(item_data, "completed_at", None)]

LoadList(list_data, t) ==
    [TaskList(list_data["name"], GetStr(list_data, "color", None), t)
        EXCEPT !.created_at = GetStr(list_data, "created_at", Strftime(t)),
               !.items = [i \in 1..Len(list_data["items"]) |->
                             LoadItem(list_data["items"][i], t)]]

\* a record load_data cannot read: list_data["name"], list_data["items"] or
\* item_data["text"] raises KeyError
ListRecordOk(list_data) ==
    /\ "name" \in DOMAIN list_data
    /\ "items" \in DOMAIN list_data
    /\ \A i \in 1..Len(list_data["items"]) : "text" \in DOMAIN list_data["items"][i]

GettingStarted == <<"G","e","t","t","i","n","g"," ","S","t","a","r","t","e","d">>

SeedTexts ==
    << <<"W","e","l","c","o","m","e"," ","t","o"," ","T","a","s","k","M","a","s","t",
         "e","r"," ","P","r","o","!">>,
       <<"C","l","i","c","k"," ","c","h","e","c","k","b","o","x","e","s"," ","t","o",
         " ","m","a","r","k"," ","t","a","s","k","s"," ","c","o","m","p","l","e","t","e">>,
       <<"C","l","i","c","k"," ","t","a","s","k"," ","t","e","x","t"," ","t","o"," ",
         "e","d","i","t">>,
       <<"U","s","e"," ","t","h","e"," ","s","i","d","e","b","a","r"," ","t","o"," ",
         "m","a","n","a","g","e"," ","y","o","u","r"," ","l","i","s","t","s">> >>

\* the default list of load_data
DefaultList(t) ==
    [TaskList(GettingStarted, None, t)
        EXCEPT !.items = [i \in 1..Len(SeedTexts) |-> TaskItem(SeedTexts[i], FALSE, None, t)]]

load_data_partial(f, t) ==
    IF f.exists /\ f.parses
    THEN LET bad == {i \in 1..Len(f.doc) : ~ListRecordOk(f.doc[i])}
             stop == IF bad = {} THEN Len(f.doc) + 1
                     ELSE CHOOSE i \in bad : \A j \in bad : i <= j
         IN  [i \in 1..(stop - 1) |-> LoadList(f.doc[i], t)]
                 \o (IF bad = {} THEN <<>> ELSE <<DefaultList(t)>>)
    ELSE <<DefaultList(t)>>

\* load_data: the file's lists, or [default_list] when the file is absent or
\* reading it raises
load_data(f, t) ==
    IF f.exists
    THEN IF f.parses /\ \A i \in 1..Len(f.doc) : ListRecordOk(f.doc[i])
         THEN [i \in 1..Len(f.doc) |-> LoadList(f.doc[i], t)]
         ELSE <<DefaultList(t)>>
    ELSE <<DefaultList(t)>>

select_list_short(lists, cur, index) ==
    IF 0 <= index /\ index < Len(lists) - 1 THEN index ELSE cur

\* select_list: the new current_list_index
select_list(lists, cur, index) ==
    IF 0 <= index /\ index < Len(lists) THEN index ELSE cur

\* __init__: current_list_index = -1, load_data, select_list(0) if any list
StartupIndex(lists) == IF lists # <<>> THEN select_list(lists, -1, 0) ELSE -1

\* ------------------------------------------------------------------ state
VARIABLES
    task_lists,          \* self.task_lists
    current_list_index,  \* self.current_list_index
    file,                \* taskmaster_data.json
    export_file,         \* taskmaster_export.txt
    now,                 \* the clock datetime.now() reads
    fault,               \* how the next write of a file ends
    save_failures,       \* calls of save_data that raised so far
    steps,               \* steps taken so far
    tampered,            \* the data file was changed from outside the program
    last                 \* the last user action: handler, index, outcome

vars == <<task_lists, current_list_index, file, export_file, now, tampered, fault,
          save_failures, steps, tampered, last>>

\* the keys of self.icons
icons == {"plus", "trash", "edit", "check", "list", "stats", "search", "export",
          "menu", "close", "complete", "incomplete"}

\* what the user types into a dialog or the entry field
Inputs == { <<" ">>, <<" ","a"," ">>, <<"A">>, Lower(GettingStarted) }

\* simpledialog.askstring: the typed string, or None when cancelled
DialogResults == Inputs \cup {None}

\* Python truth of an askstring result
Truthy(s) == s # None /\ s # <<>>

\* the indexes a handler is called with: every valid one and one on each side
Indexes(lists, cur) ==
    IF cur = -1 THEN {0} ELSE -1..Len(lists[cur + 1].items)

Done(op, outcome, save, index) ==
    [op |-> op, outcome |-> outcome, save |-> save, index |-> index,
     was_done |-> "n/a", orig_done |-> "n/a", after_reject |-> FALSE]

Flag(b) == IF b THEN "yes" ELSE "no"

SaveSkipped == UNCHANGED <<file, fault, save_failures>>

\* one user action that ran save_data
Saved ==
    /\ file' = save_data(task_lists', file, fault)
    /\ fault' = IF fault \in Crashes THEN "dead" ELSE "ok"
    /\ save_failures' = IF fault = "ok" THEN save_failures ELSE save_failures + 1

NotSaved == UNCHANGED <<file, fault, save_failures>>

\* one more step of a process that has not been killed
Step ==
    /\ fault # "dead"
    /\ steps < MaxSteps
    /\ steps' = steps + 1

Init ==
    /\ file = NoFile
    /\ export_file = NoFile
    /\ now = 1
    /\ fault = "ok"
    /\ task_lists = load_data(NoFile, 1)
    /\ current_list_index = StartupIndex(load_data(NoFile, 1))
    /\ save_failures = 0
    /\ steps = 0
    /\ tampered = FALSE
    /\ last = Done("init", "started", "none", -1)

\* ------------------------------------------------------------------ handlers
NameTakenExact(lists, name) ==
    \E i \in 1..Len(lists) : lists[i].name = name

\* the duplicate check of create_new_list
NameTaken(lists, name) ==
    \E i \in 1..Len(lists) : Lower(lists[i].name) = Lower(name)

\* the duplicate check of rename_list (task_list != current_list)
NameTakenByOther(lists, cur, name) ==
    \E i \in 1..Len(lists) : Lower(lists[i].name) = Lower(name) /\ i # cur + 1

\* on_list_select: the user clicks entry `index` of the listbox
on_list_select(index) ==
    /\ Step
    /\ index \in 0..(Len(task_lists) - 1)
    /\ current_list_index' = select_list(task_lists, current_list_index, index)
    /\ last' = Done("select", "selected", "none", index)
    /\ UNCHANGED <<task_lists, export_file, now, tampered>> /\ NotSaved

create_new_list(name) ==
    /\ Step
    /\ UNCHANGED <<export_file, now, tampered>>
    /\ IF ~Truthy(name)
       THEN /\ last' = Done("create", "cancelled", "none", -1)
            /\ UNCHANGED <<task_lists, current_list_index>> /\ NotSaved
       ELSE IF Strip(name) = <<>>
       THEN /\ last' = Done("create", "empty", "none", -1)
            /\ UNCHANGED <<task_lists, current_list_index>> /\ NotSaved
       ELSE IF NameTaken(task_lists, Strip(name))
       THEN /\ last' = Done("create", "duplicate", "none", -1)
            /\ UNCHANGED <<task_lists, current_list_index>> /\ NotSaved
       ELSE /\ Len(task_lists) < MaxLists
            /\ task_lists' = Append(task_lists, TaskList(Strip(name), None, now))
            /\ current_list_index' =
                   select_list(task_lists', current_list_index, Len(task_lists') - 1)
            /\ Saved
            /\ last' = [Done("create", "created", fault, -1) EXCEPT
                          !.after_reject = /\ last.op = "create"
                                           /\ last.outcome \in {"empty", "duplicate"}]

rename_list(new_name) ==
    /\ Step
    /\ UNCHANGED <<export_file, now, tampered>>
    /\ IF current_list_index = -1
       THEN /\ last' = Done("rename", "no_list", "none", -1)
            /\ UNCHANGED <<task_lists, current_list_index>> /\ NotSaved
       ELSE IF "rename" \notin icons
       THEN \* self.icons['rename'] raises KeyError before the dialog opens
            /\ last' = Done("rename", "key_error", "none", -1)
            /\ UNCHANGED <<task_lists, current_list_index>> /\ NotSaved
       ELSE LET current_list == task_lists[current_list_index + 1] IN
            IF ~(Truthy(new_name) /\ new_name # current_list.name)
            THEN /\ last' = Done("rename", "cancelled", "none", -1)
                 /\ UNCHANGED <<task_lists, current_list_index>> /\ NotSaved
            ELSE IF Strip(new_name) = <<>>
            THEN /\ last' = Done("rename", "empty", "none", -1)
                 /\ UNCHANGED <<task_lists, current_list_index>> /\ NotSaved
            ELSE IF NameTakenByOther(task_lists, current_list_index, Strip(new_name))
            THEN /\ last' = Done("rename", "duplicate", "none", -1)
                 /\ UNCHANGED <<task_lists, current_list_index>> /\ NotSaved
            ELSE /\ task_lists' =
                        [task_lists EXCEPT ![current_list_index + 1].name = Strip(new_name)]
                 /\ current_list_index' =
                        select_list(task_lists', current_list_index, current_list_index)
                 /\ Saved
                 /\ last' = Done("rename", "renamed", fault, -1)

delete_list_keeps_selection(confirm) ==
    /\ Step
    /\ UNCHANGED <<export_file, now, tampered>>
    /\ IF current_list_index = -1
       THEN /\ last' = Done("delete_list", "no_list", "none", -1)
            /\ UNCHANGED <<task_lists, current_list_index>> /\ NotSaved
       ELSE IF ~confirm
       THEN /\ last' = Done("delete_list", "declined", "none", -1)
            /\ UNCHANGED <<task_lists, current_list_index>> /\ NotSaved
       ELSE /\ task_lists' = RemoveAt(task_lists, current_list_index + 1)
            /\ current_list_index' = IF current_list_index < Len(task_lists')
                                     THEN current_list_index ELSE -1
            /\ Saved
            /\ last' = Done("delete_list", "deleted", fault, -1)

delete_list(confirm) ==
    /\ Step
    /\ UNCHANGED <<export_file, now, tampered>>
    /\ IF current_list_index = -1
       THEN /\ last' = Done("delete_list", "no_list", "none", -1)
            /\ UNCHANGED <<task_lists, current_list_index>> /\ NotSaved
       ELSE IF ~confirm
       THEN /\ last' = Done("delete_list", "declined", "none", -1)
            /\ UNCHANGED <<task_lists, current_list_index>> /\ NotSaved
       ELSE /\ task_lists' = RemoveAt(task_lists, current_list_index + 1)
            /\ current_list_index' = -1
            /\ Saved
            /\ last' = Done("delete_list", "deleted", fault, -1)

add_new_item(text) ==
    /\ Step
    /\ UNCHANGED <<export_file, now, tampered, current_list_index>>
    /\ IF current_list_index = -1
       THEN /\ last' = Done("add", "no_list", "none", -1)
            /\ UNCHANGED task_lists /\ NotSaved
       ELSE IF Strip(text) = <<>>
       THEN /\ last' = Done("add", "empty", "none", -1)
            /\ UNCHANGED task_lists /\ NotSaved
       ELSE /\ Len(task_lists[current_list_index + 1].items) < MaxItems
            /\ task_lists' = [task_lists EXCEPT ![current_list_index + 1] =
                                  TaskList_add_item(@, Strip(text), now)]
            /\ Saved
            /\ last' = Done("add", "added", fault, -1)

toggle_item_all_lists(index) ==
    /\ Step
    /\ UNCHANGED <<export_file, now, tampered, current_list_index>>
    /\ IF current_list_index = -1
       THEN /\ last' = Done("toggle", "no_list", "none", index)
            /\ UNCHANGED task_lists /\ NotSaved
       ELSE LET items == task_lists[current_list_index + 1].items
                valid == 0 <= index /\ index < Len(items)
            IN  /\ task_lists' = [i \in 1..Len(task_lists) |->
                                      TaskList_toggle_item(task_lists[i], index, now)]
                /\ Saved
                /\ last' = [Done("toggle", "called", fault, index) EXCEPT
                              !.was_done = IF valid THEN Flag(items[index + 1].done)
                                           ELSE "n/a"]

toggle_item_rollback(index) ==
    /\ Step
    /\ UNCHANGED <<export_file, now, tampered, current_list_index>>
    /\ IF current_list_index = -1
       THEN /\ last' = Done("toggle", "no_list", "none", index)
            /\ UNCHANGED task_lists /\ NotSaved
       ELSE LET items == task_lists[current_list_index + 1].items
                valid == 0 <= index /\ index < Len(items)
                toggled == [task_lists EXCEPT ![current_list_index + 1] =
                                TaskList_toggle_item(@, index, now)]
            IN  /\ task_lists' = IF fault = "ok" THEN toggled ELSE task_lists
                /\ file' = save_data(toggled, file, fault)
                /\ fault' = IF fault \in Crashes THEN "dead" ELSE "ok"
                /\ save_failures' = IF fault = "ok" THEN save_failures
                                    ELSE save_failures + 1
                /\ last' = [Done("toggle", "called", fault, index) EXCEPT
                              !.was_done = IF valid THEN Flag(items[index + 1].done)
                                           ELSE "n/a"]

toggle_item(index) ==
    /\ Step
    /\ UNCHANGED <<export_file, now, tampered, current_list_index>>
    /\ IF current_list_index = -1
       THEN /\ last' = Done("toggle", "no_list", "none", index)
            /\ UNCHANGED task_lists /\ NotSaved
       ELSE LET items == task_lists[current_list_index + 1].items
                valid == 0 <= index /\ index < Len(items)
                again == /\ last.op = "toggle" /\ last.outcome = "called"
                         /\ last.index = index
            IN  /\ task_lists' = [task_lists EXCEPT ![current_list_index + 1] =
                                      TaskList_toggle_item(@, index, now)]
                /\ Saved
                /\ last' = [Done("toggle", "called", fault, index) EXCEPT
                              !.was_done = IF valid THEN Flag(items[index + 1].done)
                                           ELSE "n/a",
                              !.orig_done = IF valid /\ again THEN last.was_done
                                            ELSE "n/a"]

edit_item_text(index, new_text) ==
    /\ Step
    /\ UNCHANGED <<export_file, now, tampered, current_list_index>>
    /\ IF current_list_index = -1
       THEN /\ last' = Done("edit", "no_list", "none", index)
            /\ UNCHANGED task_lists /\ NotSaved
       ELSE LET current_list == task_lists[current_list_index + 1] IN
            IF ~(0 <= index /\ index < Len(current_list.items))
            THEN /\ last' = Done("edit", "bad_index", "none", index)
                 /\ UNCHANGED task_lists /\ NotSaved
            ELSE IF ~Truthy(new_text)
            THEN /\ last' = Done("edit", "cancelled", "none", index)
                 /\ UNCHANGED task_lists /\ NotSaved
            ELSE IF ~(Strip(new_text) # <<>>
                      /\ Strip(new_text) # current_list.items[index + 1].text)
            THEN /\ last' = Done("edit", "unchanged", "none", index)
                 /\ UNCHANGED task_lists /\ NotSaved
            ELSE /\ task_lists' = [task_lists EXCEPT ![current_list_index + 1] =
                                       TaskList_edit_item(@, index, Strip(new_text))]
                 /\ Saved
                 /\ last' = Done("edit", "edited", fault, index)

\* len(item_text) < 30 deletes without asking
ConfirmLen == 30

delete_item(index, confirm) ==
    /\ Step
    /\ UNCHANGED <<export_file, now, tampered, current_list_index>>
    /\ IF current_list_index = -1
       THEN /\ last' = Done("delete_item", "no_list", "none", index)
            /\ UNCHANGED task_lists /\ NotSaved
       ELSE LET current_list == task_lists[current_list_index + 1] IN
            IF ~(0 <= index /\ index < Len(current_list.items))
            THEN /\ last' = Done("delete_item", "bad_index", "none", index)
                 /\ UNCHANGED task_lists /\ NotSaved
            ELSE IF Len(current_list.items[index + 1].text) < ConfirmLen \/ confirm
            THEN /\ task_lists' = [task_lists EXCEPT ![current_list_index + 1] =
                                       TaskList_remove_item(@, index)]
                 /\ Saved
                 /\ last' = Done("delete_item", "deleted", fault, index)
            ELSE /\ last' = Done("delete_item", "declined", "none", index)
                 /\ UNCHANGED task_lists /\ NotSaved

\* ------------------------------------------------------------------ export
ReportItem(item, n) ==
    [n         |-> n,
     status    |-> IF item.done THEN "done" ELSE "open",
     text      |-> item.text,
     completed |-> IF item.done /\ item.completed_at # None
                   THEN item.completed_at ELSE <<>>]

ReportSection(tl) ==
    [name     |-> Upper(tl.name),
     progress |-> TaskList_get_stats(tl),
     created  |-> tl.created_at,
     items    |-> [i \in 1..Len(tl.items) |-> ReportItem(tl.items[i], i)]]

RECURSIVE SumItems(_)
SumItems(lists) ==
    IF lists = <<>> THEN 0 ELSE Len(Head(lists).items) + SumItems(Tail(lists))

Report(lists, t) ==
    [date        |-> Strftime(t),
     sections    |-> [i \in 1..Len(lists) |-> ReportSection(lists[i])],
     total_lists |-> Len(lists),
     total_tasks |-> SumItems(lists)]

\* export_data: open(..., "w") truncates, the writes follow; any exception is
\* caught and shown
export_data_to_data_file ==
    /\ Step
    /\ file' =
           CASE fault \in {"ok", "killed_after_close"}          -> JsonFile(Report(task_lists, now))
             [] fault \in {"open_failed", "killed_before_open"} -> file
             [] fault \in {"write_failed", "killed_in_write"}   -> TruncatedFile
    /\ fault' = IF fault \in Crashes THEN "dead" ELSE "ok"
    /\ last' = Done("export", fault, "none", -1)
    /\ UNCHANGED <<task_lists, current_list_index, export_file, now, save_failures,
                   tampered>>

export_data ==
    /\ Step
    /\ export_file' =
           CASE fault \in {"ok", "killed_after_close"}          -> JsonFile(Report(task_lists, now))
             [] fault \in {"open_failed", "killed_before_open"} -> export_file
             [] fault \in {"write_failed", "killed_in_write"}   -> TruncatedFile
    /\ fault' = IF fault \in Crashes THEN "dead" ELSE "ok"
    /\ last' = Done("export", fault, "none", -1)
    /\ UNCHANGED <<task_lists, current_list_index, file, now, save_failures, tampered>>

\* ------------------------------------------------------------------ environment
\* the window is closed and the program started again: __init__
Restart ==
    /\ steps < MaxSteps
    /\ steps' = steps + 1
    /\ task_lists' = load_data(file, now)
    /\ current_list_index' = StartupIndex(task_lists')
    /\ fault' = IF fault = "dead" THEN "ok" ELSE fault
    /\ last' = Done("restart", "started", "none", -1)
    /\ UNCHANGED <<file, save_failures, export_file, now, tampered>>

\* a minute passes
Tick ==
    /\ Step
    /\ now' = now + 1
    /\ UNCHANGED <<task_lists, current_list_index, export_file, tampered, last>>
    /\ NotSaved

\* the disk fills up or the file becomes read-only: the next write fails; or
\* the process will be killed inside the next write
DiskFault(kind) ==
    /\ Step
    /\ fault = "ok"
    /\ fault' = kind
    /\ UNCHANGED <<task_lists, current_list_index, file, export_file, now, tampered,
                   save_failures, last>>

\* what another program or the user's editor does to taskmaster_data.json
FileDamages == {"deleted", "garbage", "no_name", "no_items"}

\* a JSON object without one of its keys
DropKey(obj, key) == [k \in DOMAIN obj \ {key} |-> obj[k]]

Damaged(f, kind, i) ==
    CASE kind = "deleted"  -> NoFile
      [] kind = "garbage"  -> TruncatedFile
      [] kind = "no_name"  -> JsonFile([f.doc EXCEPT ![i] = DropKey(@, "name")])
      [] kind = "no_items" -> JsonFile([f.doc EXCEPT ![i] = DropKey(@, "items")])

\* the data file is deleted, overwritten with text that is no JSON, or list
\* record i loses a key load_data indexes
DamageFile(kind, i) ==
    /\ Step
    /\ file.exists
    /\ IF kind \in {"no_name", "no_items"}
       THEN file.parses /\ i \in 1..Len(file.doc) /\ ListRecordOk(file.doc[i])
       ELSE i = 1
    /\ file' = Damaged(file, kind, i)
    /\ tampered' = TRUE
    /\ last' = Done("damage", kind, "none", -1)
    /\ UNCHANGED <<task_lists, current_list_index, export_file, now, fault,
                   save_failures>>

Next ==
    \/ \E index \in 0..(MaxLists - 1) : on_list_select(index)
    \/ \E name \in DialogResults : create_new_list(name)
    \/ \E new_name \in DialogResults : rename_list(new_name)
    \/ \E confirm \in BOOLEAN : delete_list(confirm)
    \/ \E text \in Inputs : add_new_item(text)
    \/ \E index \in Indexes(task_lists, current_list_index) : toggle_item(index)
    \/ \E index \in Indexes(task_lists, current_list_index),
          new_text \in DialogResults : edit_item_text(index, new_text)
    \/ \E index \in Indexes(task_lists, current_list_index),
          confirm \in BOOLEAN : delete_item(index, confirm)
    \/ export_data
    \/ Restart
    \/ Tick
    \/ \E kind \in (SaveOutcomes \ {"ok"}) \cup Crashes : DiskFault(kind)
    \/ \E kind \in FileDamages, i \in 1..MaxLists : DamageFile(kind, i)

Spec == Init /\ [][Next]_vars

\* ------------------------------------------------------------------ properties
\* the selected list's items
Items(lists, cur) == lists[cur + 1].items

Selected == current_list_index # -1

ValidIndex(index) ==
    Selected /\ 0 <= index /\ index < Len(Items(task_lists, current_list_index))

\* the file holds the serialization of the store `lists`
Persisted(f, lists) == f.exists /\ f.parses /\ f.doc = Dump(lists)

\* `name` equals, ignoring case, the name of a list of the store
UsedIgnoringCase(lists, name) ==
    \E i \in 1..Len(lists) : Lower(lists[i].name) = Lower(name)

\* `new` is `old` without its element at position k (1-based)
Without(old, new, k) ==
    /\ Len(new) = Len(old) - 1
    /\ \A i \in 1..Len(new) : new[i] = IF i < k THEN old[i] ELSE old[i + 1]

\* `new` is `old` with one element more at the end
Extends(old, new) ==
    /\ Len(new) = Len(old) + 1
    /\ \A i \in 1..Len(old) : new[i] = old[i]

\* C1: while no save has failed and nothing but the program has written the
\* file, the data file holds the serialization of the
\* in-memory store as soon as any mutation has been made; a store with no file
\* behind it is the seeded store no mutation has touched.
C1_WriteThrough ==
    (save_failures = 0 /\ ~tampered) =>
        IF file.exists
        THEN Persisted(file, task_lists)
        ELSE \E t \in 1..now : task_lists = <<DefaultList(t)>>

C1_Witness ==
    /\ last.op = "edit" /\ last.outcome = "edited"
    /\ save_failures = 0
    /\ Persisted(file, task_lists)
    /\ task_lists[1].items[2].text = <<"a">>

\* C2: no two distinct lists of the store have names that are equal ignoring
\* case.
C2_UniqueNames ==
    \A i, j \in 1..Len(task_lists) :
        i # j => Lower(task_lists[i].name) # Lower(task_lists[j].name)

C2_Witness ==
    /\ Len(task_lists) = 2
    /\ last.op = "create" /\ last.outcome = "duplicate"

\* C3: rename_list on a selected list, with a new name that is non-empty after
\* trimming and unused (ignoring case) by any other list, sets the list's name
\* to the trimmed name, leaves everything else of the store and the selection
\* unchanged, and persists the store.
C3_RenameRenames ==
    [][\A new_name \in Inputs :
          ( /\ last'.op = "rename"
            /\ rename_list(new_name)
            /\ Selected
            /\ Strip(new_name) # <<>>
            /\ \A i \in 1..Len(task_lists) :
                   i # current_list_index + 1 =>
                       Lower(task_lists[i].name) # Lower(Strip(new_name)) )
          => /\ task_lists'[current_list_index + 1].name = Strip(new_name)
             /\ Len(task_lists') = Len(task_lists)
             /\ \A i \in 1..Len(task_lists) :
                    /\ task_lists'[i].items = task_lists[i].items
                    /\ i # current_list_index + 1 => task_lists'[i] = task_lists[i]
             /\ current_list_index' = current_list_index
             /\ fault = "ok" => Persisted(file', task_lists')]_vars

\* C4: create_new_list with a name that is non-empty after trimming and unused
\* ignoring case appends one list with the trimmed name and no items, keeps the
\* existing lists, selects the new list and persists; an add_new_item that
\* follows puts its item into the new list.
C4_CreateAppends ==
    /\ [][\A name \in Inputs :
             ( /\ last'.op = "create"
               /\ create_new_list(name)
               /\ Strip(name) # <<>>
               /\ ~UsedIgnoringCase(task_lists, Strip(name)) )
             => /\ Extends(task_lists, task_lists')
                /\ task_lists'[Len(task_lists')].name = Strip(name)
                /\ task_lists'[Len(task_lists')].items = <<>>
                /\ current_list_index' = Len(task_lists') - 1
                /\ fault = "ok" => Persisted(file', task_lists')]_vars
    /\ [][\A text \in Inputs :
             ( /\ last.op = "create" /\ last.outcome = "created"
               /\ last'.op = "add"
               /\ add_new_item(text)
               /\ Strip(text) # <<>> )
             => /\ Len(task_lists') = Len(task_lists)
                /\ Extends(task_lists[Len(task_lists)].items,
                           task_lists'[Len(task_lists)].items)
                /\ \A i \in 1..(Len(task_lists) - 1) : task_lists'[i] = task_lists[i]]_vars

C4_Witness ==
    /\ last.op = "add" /\ last.outcome = "added"
    /\ Len(task_lists) = 2
    /\ current_list_index = 1
    /\ task_lists[2].name = <<"a">>
    /\ Len(task_lists[2].items) = 1
    /\ Persisted(file, task_lists)

\* C5: create_new_list with a whitespace-only name, or with a name that after
\* trimming equals an existing name ignoring case, leaves the store, the
\* selection and the data file unchanged; a create_new_list with an unused name
\* right after it succeeds.
C5_RejectedCreate ==
    /\ [][\A name \in Inputs :
             ( /\ last'.op = "create"
               /\ create_new_list(name)
               /\ \/ Strip(name) = <<>>
                  \/ UsedIgnoringCase(task_lists, Strip(name)) )
             => UNCHANGED <<task_lists, current_list_index, file>>]_vars
    /\ [][\A name \in Inputs :
             ( /\ last.op = "create" /\ last.outcome \in {"empty", "duplicate"}
               /\ last'.op = "create"
               /\ create_new_list(name)
               /\ Strip(name) # <<>>
               /\ ~UsedIgnoringCase(task_lists, Strip(name)) )
             => /\ Extends(task_lists, task_lists')
                /\ task_lists'[Len(task_lists')].name = Strip(name)]_vars

C5_Witness ==
    /\ last.op = "create" /\ last.outcome = "created" /\ last.after_reject
    /\ Len(task_lists) = 2
    /\ task_lists[1].name = GettingStarted

\* C6: delete_list with a list selected and the user confirming removes the
\* selected list and nothing else, clears the selection and persists; with no
\* list selected or the confirmation declined nothing changes.
C6_DeleteList ==
    [][\A confirm \in BOOLEAN :
          (last'.op = "delete_list" /\ delete_list(confirm)) =>
              IF Selected /\ confirm
              THEN /\ Without(task_lists, task_lists', current_list_index + 1)
                   /\ current_list_index' = -1
                   /\ fault = "ok" => Persisted(file', task_lists')
              ELSE UNCHANGED <<task_lists, current_list_index, file>>]_vars

C6_Witness ==
    /\ last.op = "delete_list" /\ last.outcome = "deleted"
    /\ Len(task_lists) = 1
    /\ task_lists[1].name = <<"a">>
    /\ current_list_index = -1
    /\ Persisted(file, task_lists)

\* C7: every item whose completed_at is set is done.
C7_CompletedIsDone ==
    \A i \in 1..Len(task_lists) :
        \A j \in 1..Len(task_lists[i].items) :
            task_lists[i].items[j].completed_at # None => task_lists[i].items[j].done

C7_Witness ==
    /\ last.op = "restart"
    /\ Len(task_lists) = 1
    /\ \E j \in 1..Len(task_lists[1].items) :
           /\ task_lists[1].items[j].completed_at # None
           /\ task_lists[1].items[j].done

\* the item the last toggle_item acted on
Toggled == Items(task_lists, current_list_index)[last.index + 1]

TwiceToggled == last.op = "toggle" /\ last.orig_done # "n/a"

\* C8 as claimed: after two consecutive toggle_item(i) calls on a valid index the
\* item's done flag is what it was before the first and its completed_at is None,
\* whatever the flag was.
C8_DoubleToggleClears ==
    TwiceToggled =>
        /\ Toggled.done = (last.orig_done = "yes")
        /\ Toggled.completed_at = None

\* C8 as amended: after two consecutive toggle_item(i) calls on a valid index the
\* item's done flag is what it was before the first; its completed_at is None
\* when the item was not done before the first call and a timestamp of the clock
\* when it was done.
C8_DoubleToggle ==
    TwiceToggled =>
        /\ Toggled.done = (last.orig_done = "yes")
        /\ last.orig_done = "no" => Toggled.completed_at = None
        /\ last.orig_done = "yes" =>
               \E t \in 1..now : Toggled.completed_at = Strftime(t)

C8_Witness ==
    /\ TwiceToggled
    /\ last.orig_done = "yes"
    /\ Toggled.done
    /\ Toggled.completed_at # None

\* C9: add_new_item with a list selected and a text that is non-empty after
\* trimming appends one item with the trimmed text, done = False and
\* completed_at = None to the selected list: total grows by one, completed and
\* the existing items stay.
C9_AddItem ==
    [][\A text \in Inputs :
          ( /\ last'.op = "add"
            /\ add_new_item(text)
            /\ Selected
            /\ Strip(text) # <<>> )
          => LET old == task_lists[current_list_index + 1]
                 new == task_lists'[current_list_index + 1]
             IN  /\ Extends(old.items, new.items)
                 /\ new.items[Len(new.items)].text = Strip(text)
                 /\ new.items[Len(new.items)].done = FALSE
                 /\ new.items[Len(new.items)].completed_at = None
                 /\ TaskList_get_stats(new).total = TaskList_get_stats(old).total + 1
                 /\ TaskList_get_stats(new).completed = TaskList_get_stats(old).completed]_vars

C9_Witness ==
    /\ last.op = "add" /\ last.outcome = "added"
    /\ current_list_index = 0
    /\ Len(task_lists[1].items) = Len(SeedTexts) + 1
    /\ task_lists[1].items[Len(SeedTexts) + 1].text = <<"a">>
    /\ task_lists[1].items[1].done
    /\ TaskList_get_stats(task_lists[1]).completed = 1

\* C10: delete_item with a list selected and a valid index (the user confirming
\* when the text has ConfirmLen or more characters) removes the item at that
\* index and no other, so total drops by one; deleting the only item of a list
\* leaves total = 0 and progress = 0.
C10_DeleteItem ==
    [][\A index \in -1..MaxItems, confirm \in BOOLEAN :
          ( /\ last'.op = "delete_item"
            /\ delete_item(index, confirm)
            /\ ValidIndex(index)
            /\ Len(Items(task_lists, current_list_index)[index + 1].text) >= ConfirmLen
                   => confirm )
          => LET old == task_lists[current_list_index + 1]
                 new == task_lists'[current_list_index + 1]
             IN  /\ Without(old.items, new.items, index + 1)
                 /\ TaskList_get_stats(new).total = TaskList_get_stats(old).total - 1
                 /\ Len(old.items) = 1 =>
                        /\ TaskList_get_stats(new).total = 0
                        /\ TaskList_get_stats(new).progress = <<0, 1>>]_vars

C10_Witness ==
    /\ last.op = "delete_item" /\ last.outcome = "deleted"
    /\ Selected
    /\ Items(task_lists, current_list_index) = <<>>
    /\ TaskList_get_stats(task_lists[current_list_index + 1]).progress = <<0, 1>>

\* C11: edit_item_text on a valid index of the selected list replaces the item's
\* text by the trimmed input and saves exactly when the trimmed input is
\* non-empty and differs from the current text; otherwise the store is unchanged
\* and no write is attempted.  Either way the item keeps its done flag, its
\* timestamps and its position, and no other item changes.
C11_EditItem ==
    [][\A index \in -1..MaxItems, new_text \in Inputs :
          ( /\ last'.op = "edit"
            /\ edit_item_text(index, new_text)
            /\ ValidIndex(index) )
          => LET old == Items(task_lists, current_list_index)
                 new == Items(task_lists', current_list_index)
                 changes == /\ Strip(new_text) # <<>>
                            /\ Strip(new_text) # old[index + 1].text
             IN  /\ Len(new) = Len(old)
                 /\ \A j \in 1..Len(old) : j # index + 1 => new[j] = old[j]
                 /\ new[index + 1].done = old[index + 1].done
                 /\ new[index + 1].created_at = old[index + 1].created_at
                 /\ new[index + 1].completed_at = old[index + 1].completed_at
                 /\ IF changes
                    THEN /\ new[index + 1].text = Strip(new_text)
                         /\ fault # "ok" => fault' # fault
                         /\ fault = "ok" => Persisted(file', task_lists')
                    ELSE UNCHANGED <<task_lists, file, fault>>]_vars

C11_Witness ==
    /\ last.op = "edit" /\ last.outcome = "edited" /\ last.save = "ok"
    /\ current_list_index = 0
    /\ task_lists[1].items[1].text = <<"a">>
    /\ task_lists[1].items[1].done
    /\ task_lists[1].items[1].completed_at # None
    /\ Persisted(file, task_lists)

RECURSIVE CountDone(_)
CountDone(items) ==
    IF items = <<>> THEN 0
    ELSE (IF Head(items).done THEN 1 ELSE 0) + CountDone(Tail(items))

\* get_stats of one list agrees with the list's items
StatsOk(tl) ==
    LET st == TaskList_get_stats(tl)
    IN  /\ st.total = Len(tl.items)
        /\ st.completed = CountDone(tl.items)
        /\ 0 <= st.completed /\ st.completed <= st.total
        /\ st.progress[2] > 0
        /\ st.total = 0 => st.progress[1] = 0
        /\ st.total > 0 => st.progress[1] * st.total = 100 * st.completed * st.progress[2]
        /\ 0 <= st.progress[1] /\ st.progress[1] <= 100 * st.progress[2]

\* C12: for every list of every reachable store, get_stats returns total = the
\* number of items, completed = the number of done items, 0 <= completed <=
\* total, progress = 0 for an empty list and 100 * completed / total otherwise
\* (progress is the exact fraction), so 0 <= progress <= 100; the handler that
\* computes the stats of every list, export_data, leaves the store unchanged.
C12_Stats ==
    /\ [](\A i \in 1..Len(task_lists) : StatsOk(task_lists[i]))
    /\ [][(last'.op = "export" /\ export_data) => UNCHANGED task_lists]_vars

C12_Witness ==
    /\ Len(task_lists) = 2
    /\ TaskList_get_stats(task_lists[1]).completed = 1
    /\ TaskList_get_stats(task_lists[1]).total = Len(SeedTexts)
    /\ TaskList_get_stats(task_lists[1]).progress = <<100, Len(SeedTexts)>>
    /\ TaskList_get_stats(task_lists[2]).total = 0
    /\ TaskList_get_stats(task_lists[2]).progress = <<0, 1>>

\* C13: saving the store and loading the written file gives the store back:
\* the same lists in the same order with name, color and created_at, and in each
\* list the same items in the same order with text, done, created_at and
\* completed_at.
C13_RoundTrip ==
    LET loaded == load_data(save_data(task_lists, file, "ok"), now)
    IN  /\ Len(loaded) = Len(task_lists)
        /\ \A i \in 1..Len(task_lists) :
               /\ loaded[i].name = task_lists[i].name
               /\ loaded[i].color = task_lists[i].color
               /\ loaded[i].created_at = task_lists[i].created_at
               /\ Len(loaded[i].items) = Len(task_lists[i].items)
               /\ \A j \in 1..Len(task_lists[i].items) :
                      /\ loaded[i].items[j].text = task_lists[i].items[j].text
                      /\ loaded[i].items[j].done = task_lists[i].items[j].done
                      /\ loaded[i].items[j].created_at = task_lists[i].items[j].created_at
                      /\ loaded[i].items[j].completed_at =
                             task_lists[i].items[j].completed_at

C13_Witness ==
    /\ last.op = "restart"
    /\ now = 2
    /\ Persisted(file, task_lists)
    /\ Len(task_lists) = 1
    /\ task_lists[1].created_at = Strftime(1)
    /\ \E j \in 1..Len(task_lists[1].items) :
           /\ task_lists[1].items[j].done
           /\ task_lists[1].items[j].completed_at # None
           /\ task_lists[1].items[j].created_at = Strftime(1)

\* the store load_data seeds: one list "Getting Started" with the four fixed
\* items in order, none done
IsSeeded(lists) ==
    /\ Len(lists) = 1
    /\ lists[1].name = GettingStarted
    /\ Len(lists[1].items) = Len(SeedTexts)
    /\ \A j \in 1..Len(SeedTexts) :
           /\ lists[1].items[j].text = SeedTexts[j]
           /\ lists[1].items[j].done = FALSE
           /\ lists[1].items[j].completed_at = None

\* the file is absent, is no JSON, or holds a list record without name or items
Unloadable(f) ==
    \/ ~f.exists
    \/ ~f.parses
    \/ \E i \in 1..Len(f.doc) :
           "name" \notin DOMAIN f.doc[i] \/ "items" \notin DOMAIN f.doc[i]

\* C14: a start with the data file absent, unparsable or holding a list record
\* without name or items loads exactly the seeded store, never some of the
\* file's lists.
C14_LoadFallback ==
    [][(last'.op = "restart" /\ Restart /\ Unloadable(file)) => IsSeeded(task_lists')]_vars

C14_Witness ==
    /\ last.op = "restart"
    /\ file.exists /\ file.parses
    /\ Len(file.doc) = 2
    /\ "name" \in DOMAIN file.doc[1] /\ "items" \in DOMAIN file.doc[1]
    /\ "items" \notin DOMAIN file.doc[2]
    /\ IsSeeded(task_lists)

\* C15: toggle_item, edit_item_text and delete_item called with no list
\* selected or with an index outside 0..len(items)-1, and add_new_item with
\* text that is empty once stripped, leave every list, every item and the
\* selection as they were.
C15_InvalidTarget ==
    [][/\ \A index \in -1..MaxItems :
              ( /\ last'.op \in {"toggle", "edit", "delete_item"}
                /\ ~ValidIndex(index)
                /\ \/ toggle_item(index)
                   \/ \E new_text \in DialogResults : edit_item_text(index, new_text)
                   \/ \E confirm \in BOOLEAN : delete_item(index, confirm) )
              => UNCHANGED <<task_lists, current_list_index>>
       /\ \A text \in Inputs :
              ( /\ last'.op = "add"
                /\ Strip(text) = <<>>
                /\ add_new_item(text) )
              => UNCHANGED <<task_lists, current_list_index>>]_vars

C15_Witness ==
    /\ last.op = "toggle" /\ last.outcome = "called"
    /\ Selected
    /\ ~ValidIndex(last.index)
    /\ \E i \in 1..Len(Items(task_lists, current_list_index)) :
           Items(task_lists, current_list_index)[i].done

\* the operations that change the store and then call save_data
Mutated(l) ==
    \/ l.op \in {"create", "delete_list", "add", "edit", "delete_item"}
           /\ l.outcome \in {"created", "deleted", "added", "edited"}
    \/ l.op = "toggle" /\ l.outcome = "called" /\ l.was_done # "n/a"

\* C16: when the save inside a mutating operation raises, the mutation stays
\* in memory (a toggled item stays toggled); and after any mutating operation
\* whose save succeeds the file holds the serialization of the whole store,
\* earlier failed saves or not.
C16_SaveFailure ==
    /\ [][( /\ fault # "ok" /\ fault' = "ok"
            /\ Mutated(last')
            /\ last'.save = fault )
          => /\ task_lists' # task_lists
             /\ last'.op = "toggle" =>
                    Items(task_lists', current_list_index)[last'.index + 1].done
                        = ~Items(task_lists, current_list_index)[last'.index + 1].done]_vars
    /\ []((Mutated(last) /\ last.save = "ok") => Persisted(file, task_lists))

\* an add whose save failed, then a toggle whose save succeeded: the file holds
\* the store with the added item
C16_Witness ==
    /\ save_failures = 1
    /\ last.op = "toggle" /\ last.save = "ok" /\ last.was_done # "n/a"
    /\ Len(task_lists) = 1
    /\ Len(task_lists[1].items) = Len(SeedTexts) + 1
    /\ Persisted(file, task_lists)

\* C17: a process killed at any point of a save leaves the data file with the
\* content it had before the save or with the complete serialization of the
\* new store.
C17_CrashSafe ==
    [][(fault \in Crashes /\ fault' = "dead" /\ last'.save = fault)
       => (file' = file \/ Persisted(file', task_lists'))]_vars

\* C18: export_data, whether its write succeeds, raises or never opens the
\* file, leaves the store, the selection and the data file as they were.
C18_ExportReadOnly ==
    [][(last'.op = "export" /\ export_data)
       => UNCHANGED <<task_lists, current_list_index, file>>]_vars

\* an export whose write raised, with a saved store on disk
C18_Witness ==
    /\ last.op = "export" /\ last.outcome = "write_failed"
    /\ export_file = TruncatedFile
    /\ Persisted(file, task_lists)

\* C19: the store loaded at a start of the program holds at least one list.
C19_NeverEmpty ==
    last.op = "restart" => Len(task_lists) >= 1

\* C20: current_list_index is -1 or an index of task_lists; right after a
\* start it is 0 exactly when the store is non-empty; and a step of the running
\* program that leaves a list selected has removed or shifted no list.
C20_Selection ==
    /\ [](current_list_index = -1
            \/ (0 <= current_list_index /\ current_list_index < Len(task_lists)))
    /\ [](last.op \in {"init", "restart"} =>
            (current_list_index = 0 <=> Len(task_lists) > 0))
    /\ [][(current_list_index' # -1 /\ ~(last'.op = "restart" /\ Restart))
          => /\ Len(task_lists') >= Len(task_lists)
             /\ \A i \in 1..Len(task_lists) :
                    /\ task_lists'[i].name = task_lists[i].name
                    /\ task_lists'[i].created_at = task_lists[i].created_at]_vars

\* a start with a saved store of no lists: nothing is selected
C20_Witness ==
    /\ last.op = "restart"
    /\ file.exists /\ file.parses
    /\ task_lists = <<>>
    /\ current_list_index = -1

\* everything of the store but the selected list's items is as it was
OnlySelectedItemsChange ==
    /\ current_list_index' = current_list_index
    /\ Len(task_lists') = Len(task_lists)
    /\ \A i \in 1..Len(task_lists) :
           IF i = current_list_index + 1
           THEN /\ task_lists'[i].name = task_lists[i].name
                /\ task_lists'[i].color = task_lists[i].color
                /\ task_lists'[i].created_at = task_lists[i].created_at
           ELSE task_lists'[i] = task_lists[i]

\* C21: add_new_item, toggle_item, edit_item_text and delete_item change
\* nothing but the selected list's items: the other lists, the number and order
\* of lists, the selected list's name, color and created_at and the selection
\* stay; toggle_item(i) changes no item but item i and keeps item i's text and
\* created_at.
C21_ItemOpsLocal ==
    [][LET index == last'.index IN
       /\ (last'.op = "add" /\ \E text \in Inputs : add_new_item(text))
          => OnlySelectedItemsChange
       /\ (last'.op = "edit"
             /\ \E new_text \in DialogResults : edit_item_text(index, new_text))
          => OnlySelectedItemsChange
       /\ (last'.op = "delete_item"
             /\ \E confirm \in BOOLEAN : delete_item(index, confirm))
          => OnlySelectedItemsChange
       /\ (last'.op = "toggle" /\ toggle_item(index))
          => /\ OnlySelectedItemsChange
             /\ ValidIndex(index) =>
                    LET old == Items(task_lists, current_list_index)
                        new == Items(task_lists', current_list_index)
                    IN  /\ Len(new) = Len(old)
                        /\ \A j \in 1..Len(old) : j # index + 1 => new[j] = old[j]
                        /\ new[index + 1].text = old[index + 1].text
                        /\ new[index + 1].created_at = old[index + 1].created_at
                        /\ new[index + 1].done # old[index + 1].done]_vars

\* an item of the selected list toggled while another list with items exists
C21_Witness ==
    /\ last.op = "toggle" /\ last.was_done # "n/a"
    /\ Len(task_lists) = 2
    /\ \A i \in 1..2 : Len(task_lists[i].items) > 0

====
